---- MODULE Spec2Model ----
(***************************************************************************)
(* Model of util.js (src/unnamed/part_000): the six polyhedron generators, *)
(* the projection transforms and the colour helpers.                       *)
(*                                                                         *)
(* Numbers.  The generators compute with 1, 1/2, sqrt(2) and               *)
(* phi = (1 + sqrt(5)) / 2.  A number is modelled exactly as an element    *)
(* (a + b * sqrt(k)) / d of the field Q(sqrt k), k = 2 or 5, written       *)
(* [a |-> a, b |-> b, d |-> d] with d > 0 and gcd(a, b, d) = 1.  The       *)
(* rounding error of IEEE doubles (about 1e-16) is not modelled for the    *)
(* generators; the 1e-5 tolerance of isClose is.                           *)
(***************************************************************************)
EXTENDS Integers, Sequences, FiniteSets, TLC

VARIABLES
    fn,        \* the function being executed
    pc,        \* the phase (loop) of that function it is in
    n,         \* the loop counter of the current phase
    pts,       \* generators: let pts
    lines,     \* generators: let lines
    faces,     \* generators: let faces
    xStack,    \* getCubePtsLinesFaces: let xStack
    yStack,    \* getCubePtsLinesFaces: let yStack
    faceMap,   \* getCubePtsLinesFaces: let faceMap (insertion-ordered object)
    call,      \* transforms: the arguments as they were passed
    heap,      \* transforms: the caller's point objects (pts) as they are now
    newP,      \* transforms: let newP / newPts, the list returned
    zs,        \* perspectiveProjectPoints: const z of every iteration
    stdColor,  \* ctx.stdColor, the global input of getColorStr
    colorStr,  \* getStdColor: the argument, a sequence of characters
    color,     \* getStdColor: the array returned (<<>> before it returns)
    console,   \* what console.assert has written
    outStr     \* getColorStr: the string returned

shapeVars == <<pts, lines, faces, xStack, yStack, faceMap>>
projVars == <<call, heap, newP, zs>>
colorVars == <<stdColor, colorStr, color, console, outStr>>

----------------------------------------------------------------------------
(* Exact arithmetic in Q(sqrt k) *)

Abs(x) == IF x < 0 THEN -x ELSE x

RECURSIVE GCD(_, _)
GCD(x, y) == IF y = 0 THEN x ELSE GCD(y, x % y)

\* (a + b sqrt k) / d in lowest terms with a positive denominator
Norm(a, b, d) ==
    LET g == GCD(GCD(Abs(a), Abs(b)), Abs(d))
        s == IF d < 0 THEN -g ELSE g
    IN  [a |-> a \div s, b |-> b \div s, d |-> d \div s]

NInt(i) == [a |-> i, b |-> 0, d |-> 1]
NSqrt == [a |-> 0, b |-> 1, d |-> 1]         \* Math.sqrt(k)
NNeg(x) == [a |-> -x.a, b |-> -x.b, d |-> x.d]
NAdd(x, y) == Norm(x.a * y.d + y.a * x.d, x.b * y.d + y.b * x.d, x.d * y.d)
NSub(x, y) == NAdd(x, NNeg(y))
NMul(k, x, y) ==
    Norm(x.a * y.a + k * x.b * y.b, x.a * y.b + x.b * y.a, x.d * y.d)
\* x / y = x * conj(y) / norm(y), for y # 0
NDiv(k, x, y) ==
    NMul(k, x, Norm(y.d * y.a, -(y.d * y.b), y.a * y.a - k * y.b * y.b))

\* p / q > w for integers p, q > 0 and the irrational w = [m; m, m, ...]
\* (w * w = m * w + 1), by its continued fraction: no product is formed.
RECURSIVE GreaterThanW(_, _, _)
GreaterThanW(p, q, m) ==
    LET f == p \div q
        r == p - m * q
    IN  IF f > m THEN TRUE
        ELSE IF f < m \/ r = 0 THEN FALSE
        ELSE ~GreaterThanW(q, r, m)

\* floor(sqrt k) for the two radicands in use
FloorSqrt(k) == IF k = 5 THEN 2 ELSE 1

\* p / q > sqrt k, as p / q + c > sqrt k + c = [2c; 2c, 2c, ...]
GreaterThanSqrt(k, p, q) ==
    GreaterThanW(p + FloorSqrt(k) * q, q, 2 * FloorSqrt(k))

\* the sign (-1, 0, 1) of x
NSign(k, x) ==
    IF x.b = 0 THEN (IF x.a > 0 THEN 1 ELSE IF x.a < 0 THEN -1 ELSE 0)
    ELSE IF x.a = 0 THEN (IF x.b > 0 THEN 1 ELSE -1)
    ELSE IF x.a > 0 /\ x.b > 0 THEN 1
    ELSE IF x.a < 0 /\ x.b < 0 THEN -1
    ELSE IF x.a > 0 THEN (IF GreaterThanSqrt(k, x.a, -x.b) THEN 1 ELSE -1)
    ELSE (IF GreaterThanSqrt(k, -x.a, x.b) THEN -1 ELSE 1)

NLess(k, x, y) == NSign(k, NSub(x, y)) < 0
NAbs(k, x) == IF NSign(k, x) < 0 THEN NNeg(x) ELSE x

----------------------------------------------------------------------------
(* vector.js is not part of the sources: dist and dot are the Euclidean   *)
(* distance and the scalar product.                                       *)

\* the square of vector.dist(p, q)
DistSq(k, p, q) ==
    LET sq(i) == NMul(k, NSub(p[i], q[i]), NSub(p[i], q[i]))
    IN  NAdd(NAdd(sq(1), sq(2)), sq(3))

\* vector.dot(v, p)
Dot(k, v, p) ==
    NAdd(NAdd(NMul(k, v[1], p[1]), NMul(k, v[2], p[2])), NMul(k, v[3], p[3]))

----------------------------------------------------------------------------
(* isClose *)

\* 1e-5
Eps == [a |-> 1, b |-> 0, d |-> 100000]

\* isClose(a, b): Math.abs(a - b) < 1e-5
isClose(k, a, b) == NLess(k, NAbs(k, NSub(a, b)), Eps)

\* a bug: the squared distance is compared with the edge length
isCloseDist_Squared(k, D, len) == isClose(k, D, len)

\* isClose(vector.dist(p, q), len) for len > 0, given D = dist^2:
\*   |sqrt D - len| = |D - len^2| / (sqrt D + len) < 1e-5
\*   iff  y < sqrt D  where  y = 1e5 * |D - len^2| - len
\*   iff  y < 0  or  y * y < D      (y >= D + 1 gives y * y > D at once)
isCloseDist(k, D, len) ==
    LET x == NAbs(k, NSub(D, NMul(k, len, len)))
        y == NSub(NMul(k, NInt(Eps.d), x), len)
    IN  IF NSign(k, y) < 0 THEN TRUE
        ELSE IF ~NLess(k, y, NAdd(D, NInt(1))) THEN FALSE
        ELSE NLess(k, NMul(k, y, y), D)

----------------------------------------------------------------------------
(* Shared pieces of the generators *)

\* the value of a loop variable `for (s = -1; s <= 1; s += 2)` in its
\* iteration number bit (0 or 1)
Sgn(bit) == 2 * bit - 1

\* a face holds point indexes: numbers, or the string keys of `for (i in pts)`
NumIdx(i) == [v |-> i, str |-> FALSE]
StrIdx(i) == [v |-> i, str |-> TRUE]

\* pts[i] for a 0-based index i
At(P, i) == P[i + 1]

\* the indexes 0 .. Len(P) - 1, in order
Indexes(P) == [i \in 1..Len(P) |-> i - 1]

----------------------------------------------------------------------------
(* getCubePtsLinesFaces *)

\* a bug: elt[prop] = [] without the hasOwnProperty test
push_Reset(elt, prop, newItem) ==
    IF \E e \in 1..Len(elt) : elt[e].key = prop
    THEN [e \in 1..Len(elt) |->
            IF elt[e].key = prop
            THEN [elt[e] EXCEPT !.val = <<newItem>>]
            ELSE elt[e]]
    ELSE Append(elt, [key |-> prop, val |-> <<newItem>>])

\* push(elt, prop, newItem) on an object kept as the sequence of its
\* [key, val] entries in insertion order
push(elt, prop, newItem) ==
    IF \E e \in 1..Len(elt) : elt[e].key = prop
    THEN [e \in 1..Len(elt) |->
            IF elt[e].key = prop
            THEN [elt[e] EXCEPT !.val = Append(@, newItem)]
            ELSE elt[e]]
    ELSE Append(elt, [key |-> prop, val |-> <<newItem>>])

RECURSIVE pushAll(_, _, _, _)
\* the loop `for (let i = 0; i < 3; i++) push(faceMap, `${i}:${pt[i]}`, idx)`
pushAll(elt, pt, idx, i) ==
    IF i = 3 THEN elt
    ELSE pushAll(push(elt, <<i, At(pt, i)>>, NumIdx(idx)), pt, idx, i + 1)

\* Object.values(faceMap)
ObjectValues(elt) == [e \in 1..Len(elt) |-> elt[e].val]

\* one iteration of the innermost loop body, idx = n
CubeStep ==
    /\ fn = "cube" /\ pc = "pts" /\ n < 8
    /\ LET idx == n
           x == Sgn(idx \div 4)
           y == Sgn((idx \div 2) % 2)
           z == Sgn(idx % 2)
           pt == <<NInt(x), NInt(y), NInt(z)>>
           xs == IF x = -1 THEN Append(xStack, idx) ELSE xStack
           ys == IF y = -1 THEN Append(yStack, idx) ELSE yStack
           l1 == IF x = 1
                 THEN Append(lines, [from |-> Head(xs), to |-> idx])
                 ELSE lines
           l2 == IF y = 1
                 THEN Append(l1, [from |-> Head(ys), to |-> idx])
                 ELSE l1
           l3 == IF z = 1
                 THEN Append(l2, [from |-> idx - 1, to |-> idx])
                 ELSE l2
       IN  /\ pts' = Append(pts, pt)
           /\ faceMap' = pushAll(faceMap, pt, idx, 0)
           /\ xStack' = (IF x = 1 THEN Tail(xs) ELSE xs)
           /\ yStack' = (IF y = 1 THEN Tail(ys) ELSE ys)
           /\ lines' = l3
           /\ n' = n + 1
    /\ UNCHANGED <<fn, pc, faces, projVars, colorVars>>

\* let faces = Object.values(faceMap); return
CubeReturn ==
    /\ fn = "cube" /\ pc = "pts" /\ n = 8
    /\ faces' = ObjectValues(faceMap)
    /\ pc' = "done"
    /\ UNCHANGED <<fn, n, pts, lines, xStack, yStack, faceMap, projVars, colorVars>>

----------------------------------------------------------------------------
(* getTetrahedronPtsLinesFaces *)

\* a bug: 1.0 / 2
sqrt2inv_Half == NDiv(2, NInt(1), NInt(2))

\* const sqrt2inv = 1.0 / Math.sqrt(2), in Q(sqrt 2)
sqrt2inv == NDiv(2, NInt(1), NSqrt)

\* one iteration of `for (let a = -1; a <= 1; a += 2)`
TetraPtsStep ==
    /\ fn = "tetrahedron" /\ pc = "pts" /\ n < 2
    /\ LET a == Sgn(n)
           pt1 == <<NInt(a), NInt(0), NNeg(sqrt2inv)>>
           pt2 == <<NInt(0), NInt(a), sqrt2inv>>
       IN  pts' = Append(Append(pts, pt1), pt2)
    /\ IF n + 1 < 2 THEN n' = n + 1 /\ pc' = pc
                    ELSE n' = 0 /\ pc' = "lines"
    /\ UNCHANGED <<fn, lines, faces, xStack, yStack, faceMap, projVars, colorVars>>

\* one iteration of `for (let i = 0; i < 3; i++)`: the lines {i, j}, i < j < 4
TetraLinesStep ==
    /\ fn = "tetrahedron" /\ pc = "lines" /\ n < 3
    /\ LET i == n
       IN  lines' = lines \o [x \in 1..(3 - i) |-> [from |-> i, to |-> i + x]]
    /\ IF n + 1 < 3 THEN n' = n + 1 /\ pc' = pc
                    ELSE n' = 0 /\ pc' = "faces"
    /\ UNCHANGED <<fn, pts, faces, xStack, yStack, faceMap, projVars, colorVars>>

\* one iteration of `for (let i = 0; i < 4; i++)`: the face of all j != i
TetraFacesStep ==
    /\ fn = "tetrahedron" /\ pc = "faces" /\ n < 4
    /\ LET i == n
           js == SelectSeq(<<0, 1, 2, 3>>, LAMBDA j : i # j)
       IN  faces' = Append(faces, [x \in 1..Len(js) |-> NumIdx(js[x])])
    /\ IF n + 1 < 4 THEN n' = n + 1 /\ pc' = pc
                    ELSE n' = 0 /\ pc' = "done"
    /\ UNCHANGED <<fn, pts, lines, xStack, yStack, faceMap, projVars, colorVars>>

----------------------------------------------------------------------------
(* Edges by distance matching and faces by triangle closure: the loops    *)
(* shared, as text, by the dodecahedron, icosahedron, cuboctahedron and   *)
(* icosidodecahedron generators.                                          *)

\* a bug: `for (let j = 0; j < pts.length; j++)`
LinesFrom_AllPairs(k, P, i, edgeLen) ==
    LET js == SelectSeq([x \in 1..Len(P) |-> x - 1],
                  LAMBDA j : isCloseDist(k, DistSq(k, At(P, i), At(P, j)),
                                         edgeLen))
    IN  [x \in 1..Len(js) |-> [from |-> i, to |-> js[x]]]

\* the body of `for (let j = i + 1; j < pts.length; j++)`: the lines
\* {from: i, to: j} with isClose(vector.dist(pts[i], pts[j]), edgeLen)
LinesFrom(k, P, i, edgeLen) ==
    LET js == SelectSeq([x \in 1..(Len(P) - 1 - i) |-> i + x],
                  LAMBDA j : isCloseDist(k, DistSq(k, At(P, i), At(P, j)),
                                         edgeLen))
    IN  [x \in 1..Len(js) |-> [from |-> i, to |-> js[x]]]

\* the three pairwise tests of the triangle loops
isTriangle(k, P, i, j, kk, edgeLen) ==
    /\ isCloseDist(k, DistSq(k, At(P, i), At(P, j)), edgeLen)
    /\ isCloseDist(k, DistSq(k, At(P, i), At(P, kk)), edgeLen)
    /\ isCloseDist(k, DistSq(k, At(P, j), At(P, kk)), edgeLen)

RECURSIVE TrianglesFrom(_, _, _, _, _)
\* the loops over j and k under one i: the faces [i, j, k], from j on
TrianglesFrom(k, P, i, j, edgeLen) ==
    IF j >= Len(P) - 1 THEN <<>>
    ELSE LET ks == SelectSeq([x \in 1..(Len(P) - 1 - j) |-> j + x],
                       LAMBDA kk : isTriangle(k, P, i, j, kk, edgeLen))
         IN  [x \in 1..Len(ks) |-> <<NumIdx(i), NumIdx(j), NumIdx(ks[x])>>]
             \o TrianglesFrom(k, P, i, j + 1, edgeLen)

\* const phi = (1 + Math.sqrt(5)) / 2, in Q(sqrt 5)
phi == NDiv(5, NAdd(NInt(1), NSqrt), NInt(2))

\* s * x for a sign s
Times(k, s, x) == NMul(k, NInt(s), x)

\* [0, 0, 0] with the given coordinates set: pt[c] = val
SetCoord(pt, c, val) == [pt EXCEPT ![c + 1] = val]

Zero3 == <<NInt(0), NInt(0), NInt(0)>>

----------------------------------------------------------------------------
(* getDodecahedronPtsLinesFaces *)

\* const edgeLen = 2 / phi
dodecaEdgeLen == NDiv(5, NInt(2), phi)

\* the first loop nest: pts.push([s1, s2, s3])
DodecaPtsStep ==
    /\ fn = "dodecahedron" /\ pc = "pts" /\ n < 8
    /\ LET s1 == Sgn(n \div 4)
           s2 == Sgn((n \div 2) % 2)
           s3 == Sgn(n % 2)
       IN  pts' = Append(pts, <<NInt(s1), NInt(s2), NInt(s3)>>)
    /\ IF n + 1 < 8 THEN n' = n + 1 /\ pc' = pc
                    ELSE n' = 0 /\ pc' = "pts2"
    /\ UNCHANGED <<fn, lines, faces, xStack, yStack, faceMap, projVars, colorVars>>

\* the second loop nest: three points per (s1, s2)
DodecaPts2Step ==
    /\ fn = "dodecahedron" /\ pc = "pts2" /\ n < 4
    /\ LET s1 == Sgn(n \div 2)
           s2 == Sgn(n % 2)
           hi == Times(5, s1, phi)              \* s1 * phi
           lo == NDiv(5, NInt(s2), phi)         \* s2 / phi
           p1 == <<NInt(0), hi, lo>>
           p2 == <<NDiv(5, NInt(s1), phi), NInt(0), Times(5, s2, phi)>>
           p3 == <<hi, lo, NInt(0)>>
       IN  pts' = pts \o <<p1, p2, p3>>
    /\ IF n + 1 < 4 THEN n' = n + 1 /\ pc' = pc
                    ELSE n' = 0 /\ pc' = "lines"
    /\ UNCHANGED <<fn, lines, faces, xStack, yStack, faceMap, projVars, colorVars>>

\* one iteration of `for (let i = 0; i < pts.length - 1; i++)`
DodecaLinesStep ==
    /\ fn = "dodecahedron" /\ pc = "lines" /\ n < Len(pts) - 1
    /\ lines' = lines \o LinesFrom(5, pts, n, dodecaEdgeLen)
    /\ IF n + 1 < Len(pts) - 1 THEN n' = n + 1 /\ pc' = pc
                               ELSE n' = 0 /\ pc' = "faces"
    /\ UNCHANGED <<fn, pts, faces, xStack, yStack, faceMap, projVars, colorVars>>

\* a bug: coord2 = (coord1 + 2) % 3
DodecaFace_Coord(P, coord1, s1, s2) ==
    LET coord2 == (coord1 + 2) % 3
        lhs(i) == NAdd(At(At(P, i), coord1),
                       NMul(5, Times(5, s1, phi), At(At(P, i), coord2)))
        rhs == NMul(5, Times(5, s2, phi), phi)
        is == SelectSeq(Indexes(P), LAMBDA i : isClose(5, lhs(i), rhs))
    IN  [x \in 1..Len(is) |-> NumIdx(is[x])]

\* the face of (coord1, s1, s2): the indexes i with
\* isClose(pt[coord1] + s1 * phi * pt[coord2], s2 * phi * phi)
DodecaFace(P, coord1, s1, s2) ==
    LET coord2 == (coord1 + 1) % 3
        lhs(i) == NAdd(At(At(P, i), coord1),
                       NMul(5, Times(5, s1, phi), At(At(P, i), coord2)))
        rhs == NMul(5, Times(5, s2, phi), phi)
        is == SelectSeq(Indexes(P), LAMBDA i : isClose(5, lhs(i), rhs))
    IN  [x \in 1..Len(is) |-> NumIdx(is[x])]

\* one iteration of the loops over coord1, s1, s2
DodecaFacesStep ==
    /\ fn = "dodecahedron" /\ pc = "faces" /\ n < 12
    /\ faces' = Append(faces,
                   DodecaFace(pts, n \div 4, Sgn((n \div 2) % 2), Sgn(n % 2)))
    /\ IF n + 1 < 12 THEN n' = n + 1 /\ pc' = pc
                     ELSE n' = 0 /\ pc' = "done"
    /\ UNCHANGED <<fn, pts, lines, xStack, yStack, faceMap, projVars, colorVars>>

----------------------------------------------------------------------------
(* getIcosahedronPtsLinesFaces *)

\* const edgeLen = 2
icosaEdgeLen == NInt(2)

\* pt[c1] = s1; pt[c2] = s2 * phi
IcosaPtsStep ==
    /\ fn = "icosahedron" /\ pc = "pts" /\ n < 12
    /\ LET c1 == n \div 4
           c2 == (c1 + 1) % 3
           s1 == Sgn((n \div 2) % 2)
           s2 == Sgn(n % 2)
       IN  pts' = Append(pts, SetCoord(SetCoord(Zero3, c1, NInt(s1)),
                                       c2, Times(5, s2, phi)))
    /\ IF n + 1 < 12 THEN n' = n + 1 /\ pc' = pc
                     ELSE n' = 0 /\ pc' = "lines"
    /\ UNCHANGED <<fn, lines, faces, xStack, yStack, faceMap, projVars, colorVars>>

\* one iteration of `for (let i = 0; i < pts.length - 1; i++)`
IcosaLinesStep ==
    /\ fn = "icosahedron" /\ pc = "lines" /\ n < Len(pts) - 1
    /\ lines' = lines \o LinesFrom(5, pts, n, icosaEdgeLen)
    /\ IF n + 1 < Len(pts) - 1 THEN n' = n + 1 /\ pc' = pc
                               ELSE n' = 0 /\ pc' = "faces"
    /\ UNCHANGED <<fn, pts, faces, xStack, yStack, faceMap, projVars, colorVars>>

\* one iteration of `for (let i = 0; i < pts.length - 2; i++)`
IcosaFacesStep ==
    /\ fn = "icosahedron" /\ pc = "faces" /\ n < Len(pts) - 2
    /\ faces' = faces \o TrianglesFrom(5, pts, n, n + 1, icosaEdgeLen)
    /\ IF n + 1 < Len(pts) - 2 THEN n' = n + 1 /\ pc' = pc
                               ELSE n' = 0 /\ pc' = "done"
    /\ UNCHANGED <<fn, pts, lines, xStack, yStack, faceMap, projVars, colorVars>>

----------------------------------------------------------------------------
(* getCuboctahedronPtsLinesFaces *)

\* const edgeLen = Math.sqrt(2), in Q(sqrt 2)
cuboctaEdgeLen == NSqrt

\* pt[c1] = s1; pt[c2] = s2
CuboctaPtsStep ==
    /\ fn = "cuboctahedron" /\ pc = "pts" /\ n < 12
    /\ LET c1 == n \div 4
           c2 == (c1 + 1) % 3
           s1 == Sgn((n \div 2) % 2)
           s2 == Sgn(n % 2)
       IN  pts' = Append(pts, SetCoord(SetCoord(Zero3, c1, NInt(s1)),
                                       c2, NInt(s2)))
    /\ IF n + 1 < 12 THEN n' = n + 1 /\ pc' = pc
                     ELSE n' = 0 /\ pc' = "lines"
    /\ UNCHANGED <<fn, lines, faces, xStack, yStack, faceMap, projVars, colorVars>>

\* one iteration of `for (let i = 0; i < pts.length - 1; i++)`
CuboctaLinesStep ==
    /\ fn = "cuboctahedron" /\ pc = "lines" /\ n < Len(pts) - 1
    /\ lines' = lines \o LinesFrom(2, pts, n, cuboctaEdgeLen)
    /\ IF n + 1 < Len(pts) - 1 THEN n' = n + 1 /\ pc' = pc
                               ELSE n' = 0 /\ pc' = "faces"
    /\ UNCHANGED <<fn, pts, faces, xStack, yStack, faceMap, projVars, colorVars>>

\* the square of (c, s): the indexes i with pts[i][c] == s
CuboctaSquare(P, c, s) ==
    LET is == SelectSeq(Indexes(P), LAMBDA i : At(At(P, i), c) = NInt(s))
    IN  [x \in 1..Len(is) |-> NumIdx(is[x])]

\* 1. the squares: one iteration of the loops over c and s
CuboctaSquaresStep ==
    /\ fn = "cuboctahedron" /\ pc = "faces" /\ n < 6
    /\ faces' = Append(faces, CuboctaSquare(pts, n \div 2, Sgn(n % 2)))
    /\ IF n + 1 < 6 THEN n' = n + 1 /\ pc' = pc
                    ELSE n' = 0 /\ pc' = "faces2"
    /\ UNCHANGED <<fn, pts, lines, xStack, yStack, faceMap, projVars, colorVars>>

\* a bug: numMatches >= 1
CuboctaTriangle_AnyMatch(P, s) ==
    LET numMatches(i) ==
            Cardinality({j \in 0..2 : At(At(P, i), j) = NInt(At(s, j))})
        is == SelectSeq(Indexes(P), LAMBDA i : numMatches(i) >= 1)
    IN  [x \in 1..Len(is) |-> NumIdx(is[x])]

\* the triangle of s = [s1, s2, s3]: the indexes i with numMatches == 2
CuboctaTriangle(P, s) ==
    LET numMatches(i) ==
            Cardinality({j \in 0..2 : At(At(P, i), j) = NInt(At(s, j))})
        is == SelectSeq(Indexes(P), LAMBDA i : numMatches(i) = 2)
    IN  [x \in 1..Len(is) |-> NumIdx(is[x])]

\* 2. the triangles: one iteration of the loops over s1, s2, s3
CuboctaTrianglesStep ==
    /\ fn = "cuboctahedron" /\ pc = "faces2" /\ n < 8
    /\ faces' = Append(faces,
           CuboctaTriangle(pts,
               <<Sgn(n \div 4), Sgn((n \div 2) % 2), Sgn(n % 2)>>))
    /\ IF n + 1 < 8 THEN n' = n + 1 /\ pc' = pc
                    ELSE n' = 0 /\ pc' = "done"
    /\ UNCHANGED <<fn, pts, lines, xStack, yStack, faceMap, projVars, colorVars>>

----------------------------------------------------------------------------
(* getIcosidodecahedronPtsLinesFaces *)

\* const edgeLen = 1
icosidoEdgeLen == NInt(1)

\* the points (0, 0, +-phi)_s: pt[c] = s * phi
IcosidoPtsStep ==
    /\ fn = "icosidodecahedron" /\ pc = "pts" /\ n < 6
    /\ pts' = Append(pts, SetCoord(Zero3, n \div 2, Times(5, Sgn(n % 2), phi)))
    /\ IF n + 1 < 6 THEN n' = n + 1 /\ pc' = pc
                    ELSE n' = 0 /\ pc' = "pts2"
    /\ UNCHANGED <<fn, lines, faces, xStack, yStack, faceMap, projVars, colorVars>>

\* the points (1/2)(+-1, +-phi, +-phi^2)_s
IcosidoPts2Step ==
    /\ fn = "icosidodecahedron" /\ pc = "pts2" /\ n < 24
    /\ LET c1 == n \div 8
           c2 == (c1 + 1) % 3
           c3 == (c1 + 2) % 3
           s1 == Sgn((n \div 4) % 2)
           s2 == Sgn((n \div 2) % 2)
           s3 == Sgn(n % 2)
           v1 == NDiv(5, NInt(s1), NInt(2))                    \* s1 / 2
           v2 == NDiv(5, Times(5, s2, phi), NInt(2))           \* s2 * phi / 2
           v3 == NDiv(5, NMul(5, Times(5, s3, phi), phi), NInt(2))
                                                         \* s3 * phi * phi / 2
       IN  pts' = Append(pts,
                     SetCoord(SetCoord(SetCoord(Zero3, c1, v1), c2, v2),
                              c3, v3))
    /\ IF n + 1 < 24 THEN n' = n + 1 /\ pc' = pc
                     ELSE n' = 0 /\ pc' = "lines"
    /\ UNCHANGED <<fn, lines, faces, xStack, yStack, faceMap, projVars, colorVars>>

\* one iteration of `for (let i = 0; i < pts.length - 1; i++)`
IcosidoLinesStep ==
    /\ fn = "icosidodecahedron" /\ pc = "lines" /\ n < Len(pts) - 1
    /\ lines' = lines \o LinesFrom(5, pts, n, icosidoEdgeLen)
    /\ IF n + 1 < Len(pts) - 1 THEN n' = n + 1 /\ pc' = pc
                               ELSE n' = 0 /\ pc' = "faces"
    /\ UNCHANGED <<fn, pts, faces, xStack, yStack, faceMap, projVars, colorVars>>

\* the triangular faces: one iteration of the loop over i
IcosidoTrianglesStep ==
    /\ fn = "icosidodecahedron" /\ pc = "faces" /\ n < Len(pts) - 2
    /\ faces' = faces \o TrianglesFrom(5, pts, n, n + 1, icosidoEdgeLen)
    /\ IF n + 1 < Len(pts) - 2 THEN n' = n + 1 /\ pc' = pc
                               ELSE n' = 0 /\ pc' = "faces2"
    /\ UNCHANGED <<fn, pts, lines, xStack, yStack, faceMap, projVars, colorVars>>

\* findPtsInPlane(v, c): the keys i of `for (let i in pts)`, which are
\* strings, with isClose(vector.dot(v, pts[i]), c)
findPtsInPlane(P, v, c) ==
    LET is == SelectSeq(Indexes(P),
                  LAMBDA i : isClose(5, Dot(5, v, At(P, i)), c))
    IN  [x \in 1..Len(is) |-> StrIdx(is[x])]

\* the pentagonal faces: one iteration of the loops over c1, s1, s2
IcosidoPentagonsStep ==
    /\ fn = "icosidodecahedron" /\ pc = "faces2" /\ n < 12
    /\ LET c  == NDiv(5, NMul(5, phi, phi), NInt(2))       \* phi * phi / 2
           c1 == n \div 4
           c2 == (c1 + 1) % 3
           s1 == Sgn((n \div 2) % 2)
           s2 == Sgn(n % 2)
           v  == SetCoord(SetCoord(Zero3, c1,
                                   NDiv(5, Times(5, s1, phi), NInt(2))),
                          c2, NDiv(5, NInt(s2), NInt(2)))
       IN  faces' = Append(faces, findPtsInPlane(pts, v, c))
    /\ IF n + 1 < 12 THEN n' = n + 1 /\ pc' = pc
                     ELSE n' = 0 /\ pc' = "done"
    /\ UNCHANGED <<fn, pts, lines, xStack, yStack, faceMap, projVars, colorVars>>

----------------------------------------------------------------------------
ShapeNames ==
    {"cube", "tetrahedron", "dodecahedron", "icosahedron", "cuboctahedron",
     "icosidodecahedron"}

InitShapes ==
    /\ fn \in ShapeNames
    /\ pc = "pts"
    /\ n = 0
    /\ pts = <<>> /\ lines = <<>> /\ faces = <<>>
    /\ xStack = <<>> /\ yStack = <<>> /\ faceMap = <<>>
    /\ call = <<>> /\ heap = <<>> /\ newP = <<>> /\ zs = <<>>
    /\ stdColor = <<>> /\ colorStr = <<>> /\ color = <<>>
    /\ console = <<>> /\ outStr = <<>>

NextShapes ==
    \/ CubeStep
    \/ CubeReturn
    \/ TetraPtsStep
    \/ TetraLinesStep
    \/ TetraFacesStep
    \/ DodecaPtsStep
    \/ DodecaPts2Step
    \/ DodecaLinesStep
    \/ DodecaFacesStep
    \/ IcosaPtsStep
    \/ IcosaLinesStep
    \/ IcosaFacesStep
    \/ CuboctaPtsStep
    \/ CuboctaLinesStep
    \/ CuboctaSquaresStep
    \/ CuboctaTrianglesStep
    \/ IcosidoPtsStep
    \/ IcosidoPts2Step
    \/ IcosidoLinesStep
    \/ IcosidoTrianglesStep
    \/ IcosidoPentagonsStep

vars == <<fn, pc, n, shapeVars, projVars, colorVars>>

SpecShapes == InitShapes /\ [][NextShapes]_vars

----------------------------------------------------------------------------
(* The projection transforms: explode3DPoints, explodeNDPoints and        *)
(* perspectiveProjectPoints.                                              *)
(*                                                                        *)
(* Their inputs are integers here, so every number they compute is        *)
(* (n / d) / sqrt(rad) for integers n, d > 0, rad > 0, or NaN, or an      *)
(* infinity: [kind, n, d, rad].  A point is [c |-> coordinates,           *)
(* label |-> <<>> (no label property) or <<string>>]; an output point     *)
(* also has rot, the angle it was rotated by (matrix.js is not part of    *)
(* the sources: c holds the coordinates before the rotation).             *)

Num(nn, dd, rad) ==
    LET g == GCD(Abs(nn), Abs(dd))
        s == IF dd < 0 THEN -g ELSE g
    IN  [kind |-> "num", n |-> nn \div s, d |-> dd \div s,
         rad |-> IF nn = 0 THEN 1 ELSE rad]
NaN == [kind |-> "nan", n |-> 0, d |-> 1, rad |-> 1]
Inf(sg) == [kind |-> "inf", n |-> sg, d |-> 1, rad |-> 1]
NoRot == [kind |-> "none", n |-> 0, d |-> 1, rad |-> 1]

SignOf(x) == IF x > 0 THEN 1 ELSE IF x < 0 THEN -1 ELSE 0

\* x / y for integers x and y
IntDiv(x, y) ==
    IF y # 0 THEN Num(x, y, 1)
    ELSE IF x = 0 THEN NaN ELSE Inf(SignOf(x))

\* u * r
Mul(u, r) ==
    IF u.kind = "nan" \/ r.kind = "nan" THEN NaN
    ELSE IF u.kind = "inf" \/ r.kind = "inf"
         THEN (IF u.n = 0 \/ r.n = 0 THEN NaN
               ELSE Inf(SignOf(u.n) * SignOf(r.n)))
    ELSE Num(u.n * r.n, u.d * r.d, u.rad * r.rad)

\* lo + q for an integer lo
AddInt(lo, q) == IF q.kind = "num" THEN Num(lo * q.d + q.n, q.d, q.rad) ELSE q

\* an argument: undefined, a number or a boolean (true is 1, false is 0)
Undef == [t |-> "undefined", v |-> 0]
NumV(x) == [t |-> "number", v |-> x]
BoolV(b) == [t |-> "boolean", v |-> IF b THEN 1 ELSE 0]
Truthy(a) == a.t # "undefined" /\ a.v # 0

\* Math.min(...pts.map(x => x[0])) and Math.max(...)
MinX(P) == CHOOSE x \in {P[i].c[1] : i \in 1..Len(P)} :
               \A i \in 1..Len(P) : x <= P[i].c[1]
MaxX(P) == CHOOSE x \in {P[i].c[1] : i \in 1..Len(P)} :
               \A i \in 1..Len(P) : x >= P[i].c[1]

\* findR and findA: lo + (hi - lo) * (x - xMin) / (xMax - xMin)
Interp(lo, hi, x, xMin, xMax) ==
    AddInt(lo, IntDiv((hi - lo) * (x - xMin), xMax - xMin))

\* a bug: y * r, without the division by len
Radial_NoLen(y, lenSq, r) == Mul(Num(y, 1, 1), r)

\* y / len * r, where len is the square root of lenSq
Radial(y, lenSq, r) ==
    Mul(IF lenSq = 0 THEN IntDiv(y, 0) ELSE Num(y, 1, lenSq), r)

\* if (aMax === undefined) doKeepCoords = aMin
KeepFlag(aMin, aMax, doKeepCoords) ==
    IF aMax.t = "undefined" THEN aMin ELSE doKeepCoords

\* pt.label = labels[i], for every point of the input
SetLabels(P, L) == [i \in 1..Len(P) |-> [P[i] EXCEPT !.label = <<L[i]>>]]

\* explode3DPoints: [pts |-> the input points after the call,
\*                   newP |-> the list returned]
explode3DPoints(P, L, rMin, rMax, aMin, aMax, doKeepCoords) ==
    LET keep == KeepFlag(aMin, aMax, doKeepCoords)
        xMin == MinX(P)
        xMax == MaxX(P)
        labelled == SetLabels(P, L)
        out(i) ==
            LET pt == labelled[i].c
                lenSq == pt[2] * pt[2] + pt[3] * pt[3]
                r == Interp(rMin, rMax, pt[1], xMin, xMax)
            IN  [c |-> IF Truthy(keep)
                       THEN <<Radial(pt[2], lenSq, r), Radial(pt[3], lenSq, r)>>
                       ELSE <<Radial(-pt[3], lenSq, r), Radial(pt[2], lenSq, r)>>,
                 rot |-> IF aMin.t # "undefined" /\ aMax.t # "undefined"
                         THEN Interp(aMin.v, aMax.v, pt[1], xMin, xMax)
                         ELSE NoRot,
                 label |-> labelled[i].label]
    IN  [pts |-> labelled, newP |-> [i \in 1..Len(P) |-> out(i)]]

\* pt.slice(1)
Slice1(c) == [j \in 1..(Len(c) - 1) |-> c[j + 1]]

RECURSIVE SumSq(_)
\* the square of vector.len(q)
SumSq(q) == IF q = <<>> THEN 0 ELSE q[1] * q[1] + SumSq(Tail(q))

\* explodeNDPoints: [pts |-> the input points after the call,
\*                   newP |-> the list returned]
explodeNDPoints(P, L, rMin, rMax) ==
    LET xMin == MinX(P)
        xMax == MaxX(P)
        labelled == SetLabels(P, L)
        out(i) ==
            LET pt == labelled[i].c
                q == Slice1(pt)
                r == Interp(rMin, rMax, pt[1], xMin, xMax)
            IN  [c |-> [j \in 1..Len(q) |-> Radial(q[j], SumSq(q), r)],
                 rot |-> NoRot,
                 label |-> labelled[i].label]
    IN  [pts |-> labelled, newP |-> [i \in 1..Len(P) |-> out(i)]]

\* if (minZVal === undefined) minZVal = 2
MinZ(minZVal) == IF minZVal.t = "undefined" THEN 2 ELSE minZVal.v

\* a bug: pt[0] + zMin + minZVal
Depth_Plus(x, zMin, minZVal) == x + zMin + minZVal

\* const z = pt[0] - zMin + minZVal
Depth(x, zMin, minZVal) == x - zMin + minZVal

\* perspectiveProjectPoints: [zs |-> z of every iteration,
\*                            newP |-> the list returned]
perspectiveProjectPoints(P, L, minZVal) ==
    LET zMin == MinX(P)
        z(i) == Depth(P[i].c[1], zMin, MinZ(minZVal))
        out(i) ==
            LET tail == Slice1(P[i].c)
            IN  [c |-> [j \in 1..Len(tail) |-> IntDiv(tail[j], z(i))],
                 rot |-> NoRot,
                 label |-> <<L[i]>>]
    IN  [zs |-> [i \in 1..Len(P) |-> z(i)],
         newP |-> [i \in 1..Len(P) |-> out(i)]]

Explode3D ==
    /\ fn = "explode3DPoints" /\ pc = "call"
    /\ LET res == explode3DPoints(heap, call.labels, call.rMin, call.rMax,
                                  call.aMin, call.aMax, call.doKeepCoords)
       IN  heap' = res.pts /\ newP' = res.newP
    /\ pc' = "done"
    /\ UNCHANGED <<fn, n, shapeVars, call, zs, colorVars>>

ExplodeND ==
    /\ fn = "explodeNDPoints" /\ pc = "call"
    /\ LET res == explodeNDPoints(heap, call.labels, call.rMin, call.rMax)
       IN  heap' = res.pts /\ newP' = res.newP
    /\ pc' = "done"
    /\ UNCHANGED <<fn, n, shapeVars, call, zs, colorVars>>

PerspectiveProject ==
    /\ fn = "perspectiveProjectPoints" /\ pc = "call"
    /\ LET res == perspectiveProjectPoints(heap, call.labels, call.minZVal)
       IN  zs' = res.zs /\ newP' = res.newP
    /\ pc' = "done"
    /\ UNCHANGED <<fn, n, shapeVars, call, heap, colorVars>>

\* The calls considered: lists of at most MaxPts unlabelled points of one
\* dimension with coordinates in Coords, and a label per point.
MaxPts == 2
Coords == -1..1
LabelNames == <<"a", "b", "c", "d">>
PtLists(dim) ==
    UNION {[1..len -> {[c |-> c, label |-> <<>>] : c \in [1..dim -> Coords]}] :
              len \in 0..MaxPts}
LabelsFor(P) == [i \in 1..Len(P) |-> LabelNames[i]]

\* how explode3DPoints is called: (aMin, aMax, doKeepCoords)
AngleForms ==
    {<<Undef, Undef, Undef>>,
     <<BoolV(TRUE), Undef, Undef>>,
     <<BoolV(FALSE), Undef, Undef>>,
     <<NumV(0), NumV(1), Undef>>,
     <<NumV(0), NumV(1), BoolV(TRUE)>>,
     <<Undef, Undef, BoolV(TRUE)>>}

Call(P, rMin, rMax, form, minZVal) ==
    [pts |-> P, labels |-> LabelsFor(P), rMin |-> rMin, rMax |-> rMax,
     aMin |-> form[1], aMax |-> form[2], doKeepCoords |-> form[3],
     minZVal |-> minZVal]

NoForm == <<Undef, Undef, Undef>>

InitProj ==
    /\ pc = "call"
    /\ n = 0
    /\ pts = <<>> /\ lines = <<>> /\ faces = <<>>
    /\ xStack = <<>> /\ yStack = <<>> /\ faceMap = <<>>
    /\ newP = <<>> /\ zs = <<>>
    /\ stdColor = <<>> /\ colorStr = <<>> /\ color = <<>>
    /\ console = <<>> /\ outStr = <<>>
    /\ \/ /\ fn = "explode3DPoints"
          /\ \E P \in PtLists(3), rMin \in {-1, 1}, rMax \in {2},
                form \in AngleForms :
                 call = Call(P, rMin, rMax, form, Undef)
       \/ /\ fn = "explodeNDPoints"
          /\ \E dim \in {2, 3}, rMin \in {-1, 1}, rMax \in {2} :
             \E P \in PtLists(dim) :
                 call = Call(P, rMin, rMax, NoForm, Undef)
       \/ /\ fn = "perspectiveProjectPoints"
          /\ \E dim \in {1, 2, 3},
                minZVal \in {Undef, NumV(-1), NumV(0), NumV(1)} :
             \E P \in PtLists(dim) :
                 call = Call(P, 0, 0, NoForm, minZVal)
    /\ heap = call.pts

NextProj ==
    \/ Explode3D
    \/ ExplodeND
    \/ PerspectiveProject

SpecProj == InitProj /\ [][NextProj]_vars

----------------------------------------------------------------------------
(* The colour helpers: getStdColor, hex and getColorStr.                  *)
(*                                                                        *)
(* A string is the sequence of its characters.  A channel is an IEEE      *)
(* double, [kind, bits, exp]: the 53 bits of its significand, most        *)
(* significant (a 1) first, times 2^exp; zero has no bits.  Division and  *)
(* multiplication round to nearest, ties to even, as the hardware does.   *)

DZero == [kind |-> "num", bits |-> <<>>, exp |-> 0]
DNaN == [kind |-> "nan", bits |-> <<>>, exp |-> 0]

RECURSIVE IntBits(_)
\* the bits of an integer v >= 0, without leading zeros
IntBits(v) == IF v = 0 THEN <<>> ELSE Append(IntBits(v \div 2), v % 2)

RECURSIVE BitsToInt(_)
BitsToInt(bits) ==
    IF bits = <<>> THEN 0
    ELSE 2 * BitsToInt(SubSeq(bits, 1, Len(bits) - 1)) + bits[Len(bits)]

\* the positions of bits that hold b
Places(bits, b) == {j \in 1..Len(bits) : bits[j] = b}

Highest(S) == CHOOSE j \in S : \A i \in S : i <= j
Lowest(S) == CHOOSE j \in S : \A i \in S : j <= i

Zeros(cnt) == [j \in 1..cnt |-> 0]

\* without leading zeros
Strip(bits) ==
    IF Places(bits, 1) = {} THEN <<>>
    ELSE SubSeq(bits, Lowest(Places(bits, 1)), Len(bits))

\* bits + 1: the lowest 0 becomes 1 and the ones below it 0
Inc(bits) ==
    IF Places(bits, 0) = {} THEN <<1>> \o Zeros(Len(bits))
    ELSE LET p == Highest(Places(bits, 0))
         IN  SubSeq(bits, 1, p - 1) \o <<1>> \o Zeros(Len(bits) - p)

\* the double nearest to bits * 2^exp (+ something below the last bit when
\* sticky), for bits that start with a 1
RoundDouble(bits, exp, sticky) ==
    IF Len(bits) <= 53
    THEN [kind |-> "num",
          bits |-> bits \o Zeros(53 - Len(bits)),
          exp |-> exp - (53 - Len(bits))]
    ELSE LET keep == SubSeq(bits, 1, 53)
             rest == SubSeq(bits, 54, Len(bits))
             below == sticky \/ \E j \in 2..Len(rest) : rest[j] = 1
             up == rest[1] = 1 /\ (below \/ keep[53] = 1)
             m == IF up THEN Inc(keep) ELSE keep
         IN  IF Len(m) = 54
             THEN [kind |-> "num", bits |-> SubSeq(m, 1, 53),
                   exp |-> exp + Len(rest) + 1]
             ELSE [kind |-> "num", bits |-> m, exp |-> exp + Len(rest)]

RECURSIVE LeadZeros(_, _)
\* the number of zeros that start the binary expansion of r / dv, 0 < r < dv
LeadZeros(r, dv) == IF 2 * r >= dv THEN 0 ELSE 1 + LeadZeros(2 * r, dv)

RECURSIVE Pow2Mod(_, _)
\* 2^j modulo dv, by squaring
Pow2Mod(j, dv) ==
    IF j = 0 THEN 1 % dv
    ELSE LET h == Pow2Mod(j \div 2, dv)
         IN  (h * h * (IF j % 2 = 1 THEN 2 ELSE 1)) % dv

\* what remains of r / dv after j bits of its binary expansion
Remainder(r, dv, j) == (r * Pow2Mod(j, dv)) % dv

\* the first cnt bits of the binary expansion of r / dv, and what remains
FracBits(r, dv, cnt) ==
    [bits |-> [j \in 1..cnt |->
                  IF 2 * Remainder(r, dv, j - 1) >= dv THEN 1 ELSE 0],
     rem |-> Remainder(r, dv, cnt)]

\* nn / dv as a double, for integers nn >= 0 and dv > 0
Divide(nn, dv) ==
    IF nn = 0 THEN DZero
    ELSE LET q == IntBits(nn \div dv)
             r == nn % dv
             cnt == IF q # <<>> THEN 54 - Len(q)
                    ELSE IF r = 0 THEN 0 ELSE LeadZeros(r, dv) + 54
             f == FracBits(r, dv, cnt)
         IN  RoundDouble(Strip(q \o f.bits), -cnt, f.rem # 0)

Limb == 16
LimbBase == 65536

\* the Limb lowest bits of v
LowBits(v) == [j \in 1..Limb |-> IF j <= Limb - Len(IntBits(v)) THEN 0
                                 ELSE IntBits(v)[j - (Limb - Len(IntBits(v)))]]

RECURSIVE MulBits(_, _, _)
\* the bits of bits * k + carry, a limb at a time from the low end
MulBits(bits, k, carry) ==
    IF Len(bits) <= Limb THEN IntBits(BitsToInt(bits) * k + carry)
    ELSE LET cut == Len(bits) - Limb
             acc == BitsToInt(SubSeq(bits, cut + 1, Len(bits))) * k + carry
         IN  MulBits(SubSeq(bits, 1, cut), k, acc \div LimbBase)
                 \o LowBits(acc % LimbBase)

\* d * k as a double, for an integer k > 0
TimesInt(d, k) ==
    IF d.kind = "nan" THEN DNaN
    ELSE IF d.bits = <<>> THEN DZero
    ELSE RoundDouble(Strip(MulBits(d.bits, k, 0)), d.exp, FALSE)

\* Math.ceil(d) for d >= 0: [kind |-> "int" or "nan", v |-> the integer]
MathCeil(d) ==
    IF d.kind = "nan" THEN [kind |-> "nan", v |-> 0]
    ELSE IF d.bits = <<>> THEN [kind |-> "int", v |-> 0]
    ELSE LET cut == Len(d.bits) + d.exp        \* the bits before the point
         IN  IF cut <= 0 THEN [kind |-> "int", v |-> 1]
             ELSE IF cut >= Len(d.bits)
                  THEN [kind |-> "int",
                        v |-> BitsToInt(d.bits \o Zeros(d.exp))]
             ELSE [kind |-> "int",
                   v |-> BitsToInt(SubSeq(d.bits, 1, cut))
                         + IF \E j \in (cut + 1)..Len(d.bits) : d.bits[j] = 1
                           THEN 1 ELSE 0]

HexChars ==
    <<"0", "1", "2", "3", "4", "5", "6", "7", "8", "9",
      "a", "b", "c", "d", "e", "f">>

RECURSIVE ToString16(_)
\* v.toString(16)
ToString16(v) ==
    IF v.kind = "nan" THEN <<"N", "a", "N">>
    ELSE IF v.v < 16 THEN <<HexChars[v.v + 1]>>
    ELSE Append(ToString16([v EXCEPT !.v = v.v \div 16]), HexChars[(v.v % 16) + 1])

RECURSIVE PadStart(_, _, _)
\* str.padStart(len, ch)
PadStart(str, len, ch) ==
    IF Len(str) >= len THEN str ELSE PadStart(<<ch>> \o str, len, ch)

\* a bug: no padStart
hex_NoPad(d) == ToString16(MathCeil(TimesInt(d, 255)))

\* const hex = d => Math.ceil(d * 255).toString(16).padStart(2, '0')
hex(d) == PadStart(ToString16(MathCeil(TimesInt(d, 255))), 2, "0")

\* str.substr(start, len)
Substr(str, start, len) ==
    SubSeq(str, start + 1,
           IF start + len > Len(str) THEN Len(str) ELSE start + len)

IsHexChar(ch) == \E v \in 1..16 : HexChars[v] = ch
HexValue(ch) == (CHOOSE v \in 1..16 : HexChars[v] = ch) - 1

RECURSIVE HexPrefix(_)
\* the longest prefix of hexadecimal digits
HexPrefix(str) ==
    IF str # <<>> /\ IsHexChar(str[1])
    THEN <<str[1]>> \o HexPrefix(Tail(str))
    ELSE <<>>

RECURSIVE HexNumber(_)
HexNumber(str) ==
    IF str = <<>> THEN 0
    ELSE 16 * HexNumber(SubSeq(str, 1, Len(str) - 1)) + HexValue(str[Len(str)])

\* parseInt(str, 16) / 255
ParseChannel(str) ==
    IF HexPrefix(str) = <<>> THEN DNaN
    ELSE Divide(HexNumber(HexPrefix(str)), 255)

\* a bug: the assertion is left out
consoleAssert_Silent(cond, log) == log

\* console.assert(cond): writes when cond is false, and returns
consoleAssert(cond, log) ==
    IF cond THEN log ELSE Append(log, "Assertion failed")

\* the array getStdColor builds and returns
getStdColor(str) ==
    LET nDigits == IF Len(str) = 7 THEN 2 ELSE 1
        channelStr(i) ==
            LET sub == Substr(str, 1 + nDigits * i, nDigits)
            IN  IF nDigits = 1 THEN sub \o sub ELSE sub
    IN  [i \in 1..3 |-> ParseChannel(channelStr(i - 1))]

\* '#' + c.map(hex).join('')
getColorStr(c) == <<"#">> \o hex(c[1]) \o hex(c[2]) \o hex(c[3])

GetStdColor ==
    /\ fn = "getStdColor" /\ pc = "call"
    /\ console' = consoleAssert(colorStr # <<>> /\ colorStr[1] = "#", console)
    /\ color' = getStdColor(colorStr)
    /\ pc' = "returned"
    /\ UNCHANGED <<fn, n, shapeVars, projVars, stdColor, colorStr, outStr>>

\* getColorStr(c) on the array getStdColor returned
GetColorStr ==
    /\ fn = "getStdColor" /\ pc = "returned"
    /\ outStr' = getColorStr(color)
    /\ fn' = "getColorStr" /\ pc' = "returned"
    /\ UNCHANGED <<n, shapeVars, projVars, stdColor, colorStr, color, console>>

\* getColorStr() with no argument: ctx.stdColor is formatted
GetColorStrDefault ==
    /\ fn = "getStdColor" /\ pc = "returned"
    /\ outStr' = getColorStr(stdColor)
    /\ fn' = "getColorStr()" /\ pc' = "returned"
    /\ UNCHANGED <<n, shapeVars, projVars, stdColor, colorStr, color, console>>

\* The strings considered: '#' and three two-digit channels of which one is
\* any of the 256 and the others are 00 or ff; short forms; strings with
\* another first character or with a character that is no digit.
HexSet == {HexChars[v] : v \in 1..16}
AllChannels == {<<x, y>> : x \in HexSet, y \in HexSet}
EndChannels == {<<"0", "0">>, <<"f", "f">>}
OddChannels == {<<"0", "0">>, <<"f", "f">>, <<"0", "a">>, <<"g", "1">>, <<"1", "g">>}
FewChars == {"0", "8", "f", "g"}
ColorStrs ==
    {<<"#">> \o a \o b \o c : a \in AllChannels, b \in EndChannels, c \in EndChannels}
    \cup {<<"#">> \o a \o b \o c : a \in EndChannels, b \in AllChannels, c \in EndChannels}
    \cup {<<"#">> \o a \o b \o c : a \in EndChannels, b \in EndChannels, c \in AllChannels}
    \cup {<<h>> \o a \o b \o c : h \in {"#", "0", "g"}, a \in OddChannels,
                                 b \in OddChannels, c \in OddChannels}
    \cup {<<h, x, y, z>> : h \in {"#", "0"}, x \in FewChars, y \in FewChars, z \in FewChars}
    \cup {<<>>, <<"#">>, <<"#", "f">>, <<"f", "f", "0", "0", "8", "0">>}

InitColor ==
    /\ fn = "getStdColor" /\ pc = "call"
    /\ n = 0
    /\ pts = <<>> /\ lines = <<>> /\ faces = <<>>
    /\ xStack = <<>> /\ yStack = <<>> /\ faceMap = <<>>
    /\ call = <<>> /\ heap = <<>> /\ newP = <<>> /\ zs = <<>>
    /\ stdColor = <<DZero, DZero, DZero>>
    /\ colorStr \in ColorStrs
    /\ color = <<>> /\ console = <<>> /\ outStr = <<>>

NextColor ==
    \/ GetStdColor
    \/ GetColorStr
    \/ GetColorStrDefault

SpecColor == InitColor /\ [][NextColor]_vars

----------------------------------------------------------------------------
(* Properties of the generators, checked under SpecShapes *)

\* the generator fn has returned [pts, lines, faces]
Returned(f) == fn = f /\ pc = "done"

\* the radicand of the field a generator's numbers live in
Radicand(f) ==
    IF f \in {"dodecahedron", "icosahedron", "icosidodecahedron"}
    THEN 5 ELSE 2

\* the number of faces with v indexes
FacesOfSize(v) == Cardinality({f \in 1..Len(faces) : Len(faces[f]) = v})

\* the set of point indexes a face refers to
FaceSet(face) == {face[x].v : x \in 1..Len(face)}

\* C1: every generator returns the known counts of (points, edges, faces)
\* of its solid.
C1_Counts ==
    pc = "done" =>
        <<Len(pts), Len(lines), Len(faces)>> =
            CASE fn = "cube" -> <<8, 12, 6>>
              [] fn = "tetrahedron" -> <<4, 6, 4>>
              [] fn = "dodecahedron" -> <<20, 30, 12>>
              [] fn = "icosahedron" -> <<12, 30, 20>>
              [] fn = "cuboctahedron" -> <<12, 24, 14>>
              [] fn = "icosidodecahedron" -> <<30, 60, 32>>

C1_Witness == Returned("icosidodecahedron") /\ Len(lines) = 60

\* the points of {-1, 1}^3
CubeCorners ==
    {<<NInt(x), NInt(y), NInt(z)>> : x \in {-1, 1}, y \in {-1, 1}, z \in {-1, 1}}

\* the number of coordinates in which two points differ
Differ(p, q) == Cardinality({c \in 1..3 : p[c] # q[c]})

\* C2: the cube has exactly the 8 distinct points of {-1, 1}^3, 12 edges
\* that each join two points differing in exactly one coordinate (at every
\* step of the construction, too), and 6 faces, one per axis and value,
\* each holding exactly the 4 point indexes with that value on that axis.
C2_Cube ==
    fn = "cube" =>
        /\ \A l \in 1..Len(lines) :
               /\ lines[l].from \in 0..(Len(pts) - 1)
               /\ lines[l].to \in 0..(Len(pts) - 1)
               /\ Differ(At(pts, lines[l].from), At(pts, lines[l].to)) = 1
        /\ pc = "done" =>
               /\ Len(pts) = 8
               /\ {pts[i] : i \in 1..Len(pts)} = CubeCorners
               /\ Len(lines) = 12
               /\ Cardinality({<<lines[l].from, lines[l].to>> :
                                   l \in 1..Len(lines)}) = 12
               /\ Len(faces) = 6
               /\ \A f \in 1..Len(faces) :
                      /\ Len(faces[f]) = 4
                      /\ \E c \in 1..3, s \in {-1, 1} :
                             FaceSet(faces[f]) =
                                 {i \in 0..7 : At(pts, i)[c] = NInt(s)}
               /\ \A c \in 1..3, s \in {-1, 1} : \E f \in 1..Len(faces) :
                      FaceSet(faces[f]) = {i \in 0..7 : At(pts, i)[c] = NInt(s)}

C2_Witness == Returned("cube") /\ Len(lines) = 12 /\ Len(faces) = 6

\* the square of the analytic edge length of each solid:
\* cube 2, tetrahedron 2, dodecahedron 2 / phi = sqrt(5) - 1, icosahedron 2,
\* cuboctahedron sqrt(2), icosidodecahedron 1
EdgeLenSq(f) ==
    CASE f = "cube" -> NInt(4)
      [] f = "tetrahedron" -> NInt(4)
      [] f = "dodecahedron" -> [a |-> 6, b |-> -2, d |-> 1]
      [] f = "icosahedron" -> NInt(4)
      [] f = "cuboctahedron" -> NInt(2)
      [] f = "icosidodecahedron" -> NInt(1)

\* C3: in every returned solid each edge joins two distinct valid point
\* indexes whose points are at the solid's analytic edge length (the squared
\* distance is exactly the squared edge length, hence within 1e-5).
C3_EdgeLengths ==
    pc = "done" =>
        \A l \in 1..Len(lines) :
            /\ lines[l].from # lines[l].to
            /\ lines[l].from \in 0..(Len(pts) - 1)
            /\ lines[l].to \in 0..(Len(pts) - 1)
            /\ DistSq(Radicand(fn), At(pts, lines[l].from),
                      At(pts, lines[l].to)) = EdgeLenSq(fn)

C3_Witness == Returned("tetrahedron") /\ Len(lines) = 6

Sub3(p, q) == [c \in 1..3 |-> NSub(p[c], q[c])]

Cross(k, u, v) ==
    <<NSub(NMul(k, u[2], v[3]), NMul(k, u[3], v[2])),
      NSub(NMul(k, u[3], v[1]), NMul(k, u[1], v[3])),
      NSub(NMul(k, u[1], v[2]), NMul(k, u[2], v[1]))>>

\* the points of a face lie on one face plane of the solid: the plane
\* through its first three points contains all of them and has every point
\* of the solid on one side
OnFacePlane(k, P, face) ==
    LET p(x) == At(P, face[x].v)
        nrm == Cross(k, Sub3(p(2), p(1)), Sub3(p(3), p(1)))
        side(q) == NSign(k, Dot(k, nrm, Sub3(q, p(1))))
    IN  /\ nrm # Zero3
        /\ \A x \in 1..Len(face) : side(p(x)) = 0
        /\ \/ \A i \in 1..Len(P) : side(P[i]) <= 0
           \/ \A i \in 1..Len(P) : side(P[i]) >= 0

\* C4: every face of every returned solid refers to at least 3 distinct
\* valid points that lie on one face plane of the solid, and has the
\* solid's vertex count.
C4_Faces ==
    pc = "done" =>
        /\ \A f \in 1..Len(faces) :
               /\ Len(faces[f]) >= 3
               /\ FaceSet(faces[f]) \subseteq 0..(Len(pts) - 1)
               /\ Cardinality(FaceSet(faces[f])) = Len(faces[f])
               /\ OnFacePlane(Radicand(fn), pts, faces[f])
        /\ CASE fn = "cube" -> FacesOfSize(4) = Len(faces)
             [] fn = "tetrahedron" -> FacesOfSize(3) = Len(faces)
             [] fn = "icosahedron" -> FacesOfSize(3) = Len(faces)
             [] fn = "dodecahedron" -> FacesOfSize(5) = Len(faces)
             [] fn = "cuboctahedron" ->
                    FacesOfSize(4) = 6 /\ FacesOfSize(3) = 8
             [] fn = "icosidodecahedron" ->
                    FacesOfSize(3) = 20 /\ FacesOfSize(5) = 12

C4_Witness ==
    /\ Returned("icosidodecahedron")
    /\ \E f \in 1..Len(faces) : Len(faces[f]) = 5 /\ faces[f][1].str

\* the triples i < j < k of point indexes
Triples(cnt) ==
    {t \in (0..(cnt - 1)) \X (0..(cnt - 1)) \X (0..(cnt - 1)) :
        t[1] < t[2] /\ t[2] < t[3]}

\* the edge length each triangle-closure solid is built with
TriangleEdge(f) ==
    CASE f = "icosahedron" -> NInt(2)
      [] f = "cuboctahedron" -> [a |-> 0, b |-> 1, d |-> 1]
      [] f = "icosidodecahedron" -> NInt(1)

\* all three pairwise distances are within 1e-5 of the edge length
Equilateral(k, P, t, len) ==
    \A e \in {<<1, 2>>, <<1, 3>>, <<2, 3>>} :
        isCloseDist(k, DistSq(k, At(P, t[e[1]]), At(P, t[e[2]])), len)

\* C10: for the icosahedron, the icosidodecahedron and the cuboctahedron the
\* 3-vertex faces returned are exactly the triples [i, j, k], i < j < k,
\* whose pairwise distances are all within 1e-5 of the edge length: each
\* such triple is a face exactly once and there is no other 3-vertex face.
C10_TriangleClosure ==
    (pc = "done" /\ fn \in {"icosahedron", "cuboctahedron", "icosidodecahedron"})
    => LET tri == SelectSeq(faces, LAMBDA f : Len(f) = 3)
           asFace(t) == <<NumIdx(t[1]), NumIdx(t[2]), NumIdx(t[3])>>
           eq == {t \in Triples(Len(pts)) :
                     Equilateral(Radicand(fn), pts, t, TriangleEdge(fn))}
       IN  /\ \A t \in eq :
                  Cardinality({x \in 1..Len(tri) : tri[x] = asFace(t)}) = 1
           /\ \A x \in 1..Len(tri) : \E t \in eq : tri[x] = asFace(t)

C10_Witness == Returned("cuboctahedron") /\ FacesOfSize(3) = 8

\* the faces that refer to both end points of line l (an index of a face
\* refers to the point pts[index], whether it is a number or a string)
FacesWith(l) ==
    {f \in 1..Len(faces) : {l.from, l.to} \subseteq FaceSet(faces[f])}

\* C12: in every returned solid no two edges join the same pair of points,
\* every edge has from < to, and every edge belongs to exactly two faces.
C12_EdgesAndFaces ==
    pc = "done" =>
        /\ \A a, b \in 1..Len(lines) :
               a # b => {lines[a].from, lines[a].to} # {lines[b].from, lines[b].to}
        /\ \A a \in 1..Len(lines) :
               /\ lines[a].from < lines[a].to
               /\ Cardinality(FacesWith(lines[a])) = 2

C12_Witness ==
    /\ Returned("icosidodecahedron") /\ Len(lines) = 60
    /\ \E a \in 1..Len(lines) :
           {Len(faces[f]) : f \in FacesWith(lines[a])} = {3, 5}

----------------------------------------------------------------------------
(* Properties of the transforms, checked under SpecProj *)

\* the minimum depth a call of perspectiveProjectPoints asks for
AskedMinZ == IF call.minZVal = Undef THEN 2 ELSE call.minZVal.v

PerspectiveDone == fn = "perspectiveProjectPoints" /\ pc = "done"

\* every output point has one coordinate fewer than its input point
OneFewer ==
    /\ Len(newP) = Len(call.pts)
    /\ \A i \in 1..Len(newP) : Len(newP[i].c) = Len(call.pts[i].c) - 1

ExplodeDone == fn \in {"explode3DPoints", "explodeNDPoints"} /\ pc = "done"

\* the observed range of the first coordinate and the radius of point i, a
\* fraction <<numerator, denominator>> (defined when xHi > xLo)
xLo == MinX(call.pts)
xHi == MaxX(call.pts)
RadiusOf(i) ==
    <<call.rMin * (xHi - xLo) + (call.rMax - call.rMin) * (call.pts[i].c[1] - xLo),
      xHi - xLo>>

RECURSIVE NormSqFrom(_, _)
\* the square of the Euclidean norm of the numbers c[j..], a fraction
NormSqFrom(c, j) ==
    IF j > Len(c) THEN <<0, 1>>
    ELSE LET rest == NormSqFrom(c, j + 1)
             den == c[j].d * c[j].d * c[j].rad
         IN  <<c[j].n * c[j].n * rest[2] + rest[1] * den, den * rest[2]>>

\* all coordinates of an output point are numbers, and so is its angle
IsFinite(p) ==
    /\ \A j \in 1..Len(p.c) : p.c[j].kind = "num"
    /\ p.rot.kind \in {"none", "num"}

\* the norm of the finite output point p is |r|: norm^2 = r^2
NormIsAbs(p, r) ==
    LET nsq == NormSqFrom(p.c, 1)
    IN  nsq[1] * r[2] * r[2] = r[1] * r[1] * nsq[2]

\* output point i carries label labels[i]
LabelsCarried ==
    /\ Len(newP) = Len(call.pts)
    /\ \A i \in 1..Len(newP) : newP[i].label = <<call.labels[i]>>

\* C6 as stated: same count and order, label labels[i], and the norm of
\* output point i equals the radius computed from input point i.
C6_AsStated ==
    ExplodeDone =>
        /\ LabelsCarried
        /\ \A i \in 1..Len(newP) :
               /\ xHi > xLo
               /\ IsFinite(newP[i])
               /\ RadiusOf(i)[1] >= 0
               /\ NormIsAbs(newP[i], RadiusOf(i))

\* C6, amended: same count and order, label labels[i]; when the first
\* coordinates are not all equal and the other coordinates of input point i
\* are not all zero, the norm of output point i is the absolute value of
\* the radius computed from input point i; otherwise every coordinate of
\* output point i is NaN.
C6_Norm ==
    ExplodeDone =>
        /\ LabelsCarried
        /\ \A i \in 1..Len(newP) :
               IF xHi > xLo /\ SumSq(Slice1(call.pts[i].c)) > 0
               THEN /\ IsFinite(newP[i])
                    /\ Len(newP[i].c) = Len(call.pts[i].c) - 1
                    /\ NormIsAbs(newP[i], RadiusOf(i))
               ELSE \A j \in 1..Len(newP[i].c) : newP[i].c[j].kind = "nan"

C6_Witness ==
    /\ ExplodeDone /\ fn = "explodeNDPoints"
    /\ Len(newP) = 2 /\ xHi > xLo
    /\ newP[1].c[1].kind = "num" /\ newP[1].c[1].rad = 2
    /\ newP[2].c[1].kind = "num" /\ newP[2].c[1].n # 0

\* C7 as stated: after a call of any of the three transforms every input
\* point, its label included, is as it was passed.
C7_Pure == pc = "done" => heap = call.pts

Explode3DDone == fn = "explode3DPoints" /\ pc = "done"

\* both angle bounds are supplied
BothAngles == call.aMin # Undef /\ call.aMax # Undef

\* the doKeepCoords flag the caller gave: the doKeepCoords argument, or the
\* fifth argument of a call with five arguments
AskedKeep ==
    IF call.doKeepCoords # Undef THEN call.doKeepCoords
    ELSE IF call.aMax = Undef THEN call.aMin
    ELSE Undef

\* the flag the code goes by: the fifth argument whenever aMax is undefined
UsedKeep == IF call.aMax = Undef THEN call.aMin ELSE call.doKeepCoords

\* (y, z) when keep, else (-z, y), of input point i scaled to its radius
Scaled(i, keep) ==
    LET pt == call.pts[i].c
        lenSq == pt[2] * pt[2] + pt[3] * pt[3]
        r == Interp(call.rMin, call.rMax, pt[1], xLo, xHi)
    IN  IF keep
        THEN <<Radial(pt[2], lenSq, r), Radial(pt[3], lenSq, r)>>
        ELSE <<Radial(-pt[3], lenSq, r), Radial(pt[2], lenSq, r)>>

\* output point i is rotated exactly when both angle bounds are supplied
RotatedIffBoth ==
    \A i \in 1..Len(newP) : (newP[i].rot.kind # "none") <=> BothAngles

\* C11 as stated: the rotation is applied if and only if both aMin and aMax
\* are supplied; a fifth argument without angle bounds is the doKeepCoords
\* flag; with doKeepCoords true the output before any rotation is (y, z)
\* scaled to radius r, otherwise (-z, y) scaled to radius r.
C11_AsStated ==
    Explode3DDone =>
        /\ Len(newP) = Len(call.pts)
        /\ RotatedIffBoth
        /\ \A i \in 1..Len(newP) : newP[i].c = Scaled(i, Truthy(AskedKeep))

\* what the code does instead: the flag is the fifth argument whenever aMax
\* is undefined, whatever the doKeepCoords argument is
ExplodeByPosition ==
    Explode3DDone =>
        /\ Len(newP) = Len(call.pts)
        /\ RotatedIffBoth
        /\ \A i \in 1..Len(newP) : newP[i].c = Scaled(i, Truthy(UsedKeep))

----------------------------------------------------------------------------
(* Properties of the colour helpers, checked under SpecColor *)

\* '#' followed by six characters of 0-9a-f
WellFormed(str) ==
    Len(str) = 7 /\ str[1] = "#" /\ \A j \in 2..7 : IsHexChar(str[j])

\* C8: getColorStr(getStdColor(s)) = s for every well-formed 6-digit
\* lowercase hex string s.
C8_RoundTrip ==
    (fn = "getColorStr" /\ WellFormed(colorStr)) => outStr = colorStr

C8_Witness ==
    /\ fn = "getColorStr"
    /\ colorStr = <<"#", "f", "f", "f", "e", "0", "0">>
    /\ outStr = colorStr

BadStart == colorStr = <<>> \/ colorStr[1] # "#"

\* C9 as stated: with a first character other than '#' getStdColor stops at
\* the assertion: it returns no colour triple.
C9_AsStated == (BadStart /\ fn = "getStdColor") => color = <<>>

\* C9, amended: with a first character other than '#' getStdColor reports
\* the failed assertion on the console and goes on: it parses the string
\* and returns an array of three channels; with '#' nothing is reported.
C9_AssertReports ==
    (fn = "getStdColor" /\ pc = "returned") =>
        /\ Len(color) = 3
        /\ console = IF BadStart THEN <<"Assertion failed">> ELSE <<>>

C9_Witness ==
    /\ fn = "getStdColor" /\ pc = "returned"
    /\ colorStr = <<"f", "f", "0", "0", "8", "0">>
    /\ console # <<>>
    /\ color[1].kind = "num" /\ color[1].bits # <<>>
====
